---------------------------- MODULE Spec2Model ----------------------------
(***************************************************************************)
(* A-Frame locomotion and session components of src/app.js: hotspot        *)
(* (teleport), auto-walk, comfort-mode (snap turn) and auto-vr (session    *)
(* entry with a gesture-fallback overlay).                                 *)
(*                                                                         *)
(* Units.  Time is in milliseconds, as performance.now() and the frame    *)
(* delta are.  Lengths are in millimetres and angles in degrees, so that   *)
(* the real-valued arithmetic of the source is exact integer arithmetic on *)
(* the inputs enumerated here; floating-point rounding is not modelled.    *)
(***************************************************************************)
EXTENDS Integers, Sequences, FiniteSets

VARIABLES
    now,          \* performance.now()
    lastFrame,    \* time of the previous render frame (the frame delta's origin)
    frameDt,      \* dt handed to the tick handlers of the frame in progress
    tickDue,      \* auto-walk.tick has not run yet in the frame in progress
    frameQueue,   \* requestAnimationFrame callbacks being run in this frame
    rafQueue,     \* requestAnimationFrame callbacks registered for the next frame
    rigPresent,   \* document.querySelector('#rig') resolves
    position,     \* rig.object3D.position
    rotation,     \* rig rotation attribute (degrees)
    reqLog,       \* history: the hotspot clicks handled so far
    walking,      \* auto-walk: this.walking
    vrOnly,       \* auto-walk schema: vrOnly
    toggleOnClick,\* auto-walk schema: toggleOnClick
    camPresent,   \* document.querySelector('#camera') resolved at auto-walk init
    camDir,       \* cam.object3D.getWorldDirection()
    walkLog,      \* history: what the walk ticks that ran have added up to
    cooldown,     \* comfort-mode: let cooldown
    snapLog,      \* history: the snap-turn triggers handled so far
    vrMode,       \* sceneEl.is('vr-mode')
    hostApi,      \* what sceneEl.enterVR is: "promise", "void" or "absent"
    autoVr,       \* auto-vr init went past its enabled/isMobile return
    startupTimer, \* setTimeout(tryEnter, delayMs): due time, or -1
    fallbackTimer,\* setTimeout(showOverlay, 300): due time, or -1
    autoReq,      \* promise of tryEnter's enterVR(): "none", "pending", "fulfilled", "rejected"
    btnReq,       \* promise of the overlay button's enterVR()
    overlay,      \* auto-vr: let overlay ("undefined", "null" or "div")
    overlayInDom, \* the overlay div is a child of document.body
    btnArmed,     \* the button's once-listener has not fired yet
    sessLog,      \* history: counts of entry requests, overlay creations, removals
    clicks,       \* history: clicks on the overlay's button while it is displayed
    renderer,     \* vr-quality: sceneEl.renderer was there at init
    rampOnModelLoaded, \* vr-quality schema: rampOnModelLoaded
    dpr,          \* window.devicePixelRatio, in hundredths
    textures,     \* the scene has a material with a texture map
    pixelRatio,   \* renderer.getPixelRatio(), in hundredths; 0 without a renderer
    foveation,    \* renderer.xr foveation, in hundredths
    texAniso,     \* anisotropy of the scene's texture maps
    bumpArmed,    \* vr-quality: the model-loaded listener bump is registered
    prLog,        \* history: kinds of scene events seen while there is a renderer
    hotspotRemoved, \* the hotspot component was removed from its entity
    autoVrRemoved \* the auto-vr component was removed from the scene

vars == <<now, lastFrame, frameDt, tickDue, frameQueue, rafQueue, rigPresent,
          position, rotation, reqLog, walking, vrOnly, toggleOnClick,
          camPresent, camDir, walkLog, cooldown, snapLog, vrMode, hostApi,
          autoVr, startupTimer, fallbackTimer, autoReq, btnReq, overlay,
          overlayInDom, btnArmed, sessLog, clicks, renderer,
          rampOnModelLoaded, dpr, textures, pixelRatio, foveation, texAniso,
          bumpArmed, prLog, hotspotRemoved, autoVrRemoved>>

clockVars == <<now, lastFrame, frameDt, tickDue>>
rafVars == <<frameQueue, rafQueue>>
rigVars == <<rigPresent, position, rotation>>
walkVars == <<walking, vrOnly, toggleOnClick, camPresent, camDir, walkLog>>
snapVars == <<cooldown, snapLog>>
sessVars == <<hostApi, autoVr, startupTimer, fallbackTimer, autoReq, btnReq,
              overlay, overlayInDom, btnArmed, sessLog>>
qualConf == <<renderer, rampOnModelLoaded, dpr, textures>>
qualVars == <<qualConf, pixelRatio, foveation, texAniso, bumpArmed, prLog>>
lifeVars == <<hotspotRemoved, autoVrRemoved>>

(***************************************************************************)
(* Bounds of the model.                                                    *)
(***************************************************************************)
TeleportHorizon == 3  \* periods of 100 ms a run of the teleport flow lasts
WalkHorizon == 10     \* the same, of the walk flow
SnapHorizon == 4      \* the same, of the snap-turn flow
SessionHorizon == 6   \* the same, of the session flow
MotionHorizon == 2    \* the same, of teleport and walk together
RigHorizon == 1       \* the same, of teleport, walk and snap turn together
MaxRigTeleports == 1  \* hotspot clicks per run of the three together
MaxRigSnaps == 1      \* snap-turn input events per run of the three together
MaxTeleports == 2     \* hotspot clicks per run
MaxSnaps == 3         \* snap-turn input events per run
MaxClicks == 2        \* clicks on the overlay's button per run
TeardownHorizon == 5  \* periods of 100 ms a run with component removal lasts

TimeSteps == {50, 100}
FrameSteps == {100}
Min(a, b) == IF a < b THEN a ELSE b

(***************************************************************************)
(* Inputs.  A component of a hotspot's vec3 is a finite number or one of    *)
(* the non-finite values of a JavaScript number.                           *)
(***************************************************************************)
Num(n) == [kind |-> "finite", v |-> n]
NaN == [kind |-> "NaN", v |-> 0]
Infinity == [kind |-> "Infinity", v |-> 0]
isFinite(c) == c.kind = "finite"
Vec3(x, y, z) == [x |-> x, y |-> y, z |-> z]
Origin == Vec3(0, 0, 0)
\* new THREE.Vector3(to.x, to.y, to.z) of finite components
Vector3(to) == Vec3(to.x.v, to.y.v, to.z.v)
Targets == {Vec3(Num(2000), Num(0), Num(0 - 1000)),
            Vec3(Num(0 - 3000), Num(500), Num(0)),
            Vec3(Num(1000), NaN, Infinity)}
Durations == {0 - 100, 0, 100, 300}

(***************************************************************************)
(* The clock and the render loop.  Handlers run to completion: an event    *)
(* handler runs only between frames, and within a frame the tick handler   *)
(* and the frame's requestAnimationFrame callbacks run in either order.    *)
(***************************************************************************)
FrameIdle == ~tickDue /\ frameQueue = <<>>

Elapse(d, horizon) ==
    /\ FrameIdle
    /\ now + d <= horizon * 100
    /\ now' = now + d
    /\ UNCHANGED <<lastFrame, frameDt, tickDue, rafVars, rigVars, reqLog,
                   walkVars, snapVars, vrMode, sessVars>>
    /\ UNCHANGED <<qualVars, lifeVars, clicks>>

BeginFrame ==
    /\ FrameIdle
    /\ now > lastFrame
    /\ frameDt' = now - lastFrame
    /\ lastFrame' = now
    /\ tickDue' = TRUE
    /\ frameQueue' = rafQueue
    /\ rafQueue' = <<>>
    /\ UNCHANGED <<now, rigVars, reqLog, walkVars, snapVars, vrMode, sessVars>>
    /\ UNCHANGED <<qualVars, lifeVars, clicks>>

(***************************************************************************)
(* hotspot: teleport the rig to data.to, eased over data.smoothMs.         *)
(***************************************************************************)
\* k = Math.min(1, (now - start) / dur), as the numerator over dur
Progress(elapsed, dur) == Min(dur, elapsed)

\* Faulty variant of Ease: the ease-in branch alone, which overshoots past k = 0.5.
Ease_InOnly(kn, dur) == 2 * kn * kn

\* ease = k < 0.5 ? 2 * k * k : -1 + (4 - 2 * k) * k, as the numerator over dur * dur
Ease(kn, dur) ==
    IF 2 * kn < dur THEN 2 * kn * kn
    ELSE (4 * dur - 2 * kn) * kn - dur * dur

\* THREE.Vector3.lerp, one component: a += (b - a) * alpha, alpha = num / den
lerp(a, b, num, den) == a + ((b - a) * num) \div den

lerpVec(from, to, num, den) ==
    Vec3(lerp(from.x, to.x, num, den), lerp(from.y, to.y, num, den),
         lerp(from.z, to.z, num, den))

\* The closure a click creates: from, to, start and dur, and which click it was.
Animation(id, from, to, start, dur) ==
    [id |-> id, from |-> from, to |-> to, start |-> start, dur |-> dur]

Click(to, ms, accepted) ==
    [to |-> to, ms |-> ms, at |-> now, accepted |-> accepted]

\* Faulty variant of hotspot_onClick: smoothMs < 0 in place of smoothMs <= 0.
hotspot_onClick_ZeroAnimates(to, ms) ==
    /\ FrameIdle
    /\ ~hotspotRemoved
    /\ Len(reqLog) < MaxTeleports
    /\ IF ~rigPresent \/ ~isFinite(to.x) \/ ~isFinite(to.y) \/ ~isFinite(to.z)
         THEN /\ reqLog' = Append(reqLog, Click(to, ms, FALSE))
              /\ UNCHANGED <<position, rafQueue>>
       ELSE IF ms < 0
         THEN /\ position' = Vector3(to)
              /\ reqLog' = Append(reqLog, Click(to, ms, TRUE))
              /\ UNCHANGED rafQueue
       ELSE /\ rafQueue' = Append(rafQueue,
                              Animation(Len(reqLog) + 1, position, Vector3(to), now, ms))
            /\ reqLog' = Append(reqLog, Click(to, ms, TRUE))
            /\ UNCHANGED position
    /\ UNCHANGED <<clockVars, frameQueue, rigPresent, rotation, walkVars,
                   snapVars, vrMode, sessVars>>
    /\ UNCHANGED <<qualVars, lifeVars, clicks>>

\* Faulty variant of hotspot_onClick: only to.x is validated.
hotspot_onClick_ChecksXOnly(to, ms) ==
    /\ FrameIdle
    /\ ~hotspotRemoved
    /\ Len(reqLog) < MaxTeleports
    /\ IF ~rigPresent \/ ~isFinite(to.x)
         THEN /\ reqLog' = Append(reqLog, Click(to, ms, FALSE))
              /\ UNCHANGED <<position, rafQueue>>
       ELSE IF ms <= 0
         THEN /\ position' = Vector3(to)
              /\ reqLog' = Append(reqLog, Click(to, ms, TRUE))
              /\ UNCHANGED rafQueue
       ELSE /\ rafQueue' = Append(rafQueue,
                              Animation(Len(reqLog) + 1, position, Vector3(to), now, ms))
            /\ reqLog' = Append(reqLog, Click(to, ms, TRUE))
            /\ UNCHANGED position
    /\ UNCHANGED <<clockVars, frameQueue, rigPresent, rotation, walkVars,
                   snapVars, vrMode, sessVars>>
    /\ UNCHANGED <<qualVars, lifeVars, clicks>>

\* hotspot._onClick of a hotspot whose data is {to, smoothMs: ms}
hotspot_onClick(to, ms) ==
    /\ FrameIdle
    /\ ~hotspotRemoved
    /\ Len(reqLog) < MaxTeleports
    /\ IF ~rigPresent
         THEN /\ reqLog' = Append(reqLog, Click(to, ms, FALSE))
              /\ UNCHANGED <<position, rafQueue>>
       ELSE IF ~isFinite(to.x) \/ ~isFinite(to.y) \/ ~isFinite(to.z)
         THEN /\ reqLog' = Append(reqLog, Click(to, ms, FALSE))
              /\ UNCHANGED <<position, rafQueue>>
       ELSE IF ms <= 0
         THEN /\ position' = Vector3(to)
              /\ reqLog' = Append(reqLog, Click(to, ms, TRUE))
              /\ UNCHANGED rafQueue
       ELSE /\ rafQueue' = Append(rafQueue,
                              Animation(Len(reqLog) + 1, position, Vector3(to), now, ms))
            /\ reqLog' = Append(reqLog, Click(to, ms, TRUE))
            /\ UNCHANGED position
    /\ UNCHANGED <<clockVars, frameQueue, rigPresent, rotation, walkVars,
                   snapVars, vrMode, sessVars>>
    /\ UNCHANGED <<qualVars, lifeVars, clicks>>

\* One requestAnimationFrame callback of a teleport: const animate = (t) => ...
animate ==
    /\ frameQueue # <<>>
    /\ LET a == Head(frameQueue)
           kn == Progress(now - a.start, a.dur)
       IN /\ position' = lerpVec(a.from, a.to, Ease(kn, a.dur), a.dur * a.dur)
          /\ rafQueue' = IF kn < a.dur THEN Append(rafQueue, a) ELSE rafQueue
    /\ frameQueue' = Tail(frameQueue)
    /\ UNCHANGED <<clockVars, rigPresent, rotation, reqLog, walkVars, snapVars,
                   vrMode, sessVars>>
    /\ UNCHANGED <<qualVars, lifeVars, clicks>>

\* hotspot.remove: the click listener is taken off the entity
hotspot_remove ==
    /\ FrameIdle
    /\ ~hotspotRemoved
    /\ hotspotRemoved' = TRUE
    /\ UNCHANGED <<clockVars, rafVars, rigVars, reqLog, walkVars, snapVars,
                   vrMode, sessVars, clicks, qualVars, autoVrRemoved>>

(***************************************************************************)
(* auto-walk: move the rig along the camera's ground-plane direction.      *)
(***************************************************************************)
speed == 1200       \* schema speed: 1.2 m/s, in mm/s
CamDirs == {Vec3(0, 0, 0 - 1), Vec3(0, 0 - 1, 0), Vec3(3, 2, 0 - 4)}

\* Vector3.length() of an integer vector whose length is an integer
Length(x, z) == CHOOSE r \in 0..(x * x + z * z) : r * r = x * x + z * z

\* this._getForward: the unit vector is (x / len, 0, z / len)
getForward ==
    IF ~camPresent THEN [x |-> 0, z |-> 0 - 1, len |-> 1]
    ELSE IF camDir.x * camDir.x + camDir.z * camDir.z = 0
         THEN [x |-> 0, z |-> 0 - 1, len |-> 1]
    ELSE [x |-> camDir.x, z |-> camDir.z, len |-> Length(camDir.x, camDir.z)]

\* Faulty variant of shouldRun: the VR-only gate is never consulted.
shouldRun_IgnoresGate == walking

\* this._shouldRun
shouldRun == walking /\ (~vrOnly \/ vrMode)

\* Faulty variant of Delta: the frame delta without its cap.
Delta_NoCap(dt) == dt

\* const delta = Math.min(100, dt) / 1000, as the numerator over 1000
Delta(dt) == Min(100, dt)

\* fwd.c * speed * delta, one component
Displacement(c, len, dt) == (c * speed * Delta(dt)) \div (len * 1000)

\* Faulty variant of tick: the rig moves along the camera's full direction,
\* its vertical component included.
tick_AlongCamera ==
    /\ tickDue
    /\ tickDue' = FALSE
    /\ frameDt' = 0
    /\ IF ~shouldRun
         THEN UNCHANGED <<position, walkLog>>
         ELSE LET fwd == getForward
              IN /\ position' =
                      [position EXCEPT
                         !.x = @ + Displacement(fwd.x, fwd.len, frameDt),
                         !.y = @ + Displacement(camDir.y, fwd.len, frameDt),
                         !.z = @ + Displacement(fwd.z, fwd.len, frameDt)]
                 /\ walkLog' = [ms |-> walkLog.ms + frameDt,
                                maxDt |-> IF frameDt > walkLog.maxDt
                                          THEN frameDt ELSE walkLog.maxDt]
    /\ UNCHANGED <<now, lastFrame, rafVars, rigPresent, rotation,
                   reqLog, walking, vrOnly, toggleOnClick, camPresent, camDir,
                   snapVars, vrMode, sessVars>>
    /\ UNCHANGED <<qualVars, lifeVars, clicks>>

\* auto-walk.tick(time, dt)
tick ==
    /\ tickDue
    /\ tickDue' = FALSE
    /\ frameDt' = 0
    /\ IF ~shouldRun
         THEN UNCHANGED <<position, walkLog>>
         ELSE LET fwd == getForward
              IN /\ position' =
                      [position EXCEPT
                         !.x = @ + Displacement(fwd.x, fwd.len, frameDt),
                         !.z = @ + Displacement(fwd.z, fwd.len, frameDt)]
                 /\ walkLog' = [ms |-> walkLog.ms + frameDt,
                                maxDt |-> IF frameDt > walkLog.maxDt
                                          THEN frameDt ELSE walkLog.maxDt]
    /\ UNCHANGED <<now, lastFrame, rafVars, rigPresent, rotation,
                   reqLog, walking, vrOnly, toggleOnClick, camPresent, camDir,
                   snapVars, vrMode, sessVars>>
    /\ UNCHANGED <<qualVars, lifeVars, clicks>>

\* auto-walk this._onClick: a click event reaching the scene element
autoWalk_onClick ==
    /\ FrameIdle
    /\ walking' = IF toggleOnClick THEN ~walking ELSE walking
    /\ UNCHANGED <<clockVars, rafVars, rigVars, reqLog, vrOnly, toggleOnClick,
                   camPresent, camDir, walkLog, snapVars, vrMode, sessVars>>
    /\ UNCHANGED <<qualVars, lifeVars, clicks>>

(***************************************************************************)
(* comfort-mode: snap turn on key and axis input, with a cooldown.         *)
(* Radians are kept in units of pi / 180000, so that both conversions are  *)
(* exact.                                                                  *)
(***************************************************************************)
snapAngle == 30
cooldownMs == 180

\* THREE.MathUtils.degToRad and radToDeg
degToRad(deg) == deg * 1000
radToDeg(rad) == rad \div 1000

SNAP == degToRad(snapAngle)

\* One call of trySnap: when, which way, and the yaw it found.
Trigger(dir) == [at |-> now, dir |-> dir, yaw |-> rotation.y]

\* Faulty variant of trySnap: the cooldown is set but never tested.
trySnap_NoCooldownTest(dir) ==
    /\ cooldown' = now + cooldownMs
    /\ snapLog' = Append(snapLog, Trigger(dir))
    /\ IF ~rigPresent
         THEN UNCHANGED rotation
         ELSE rotation' =
                [rotation EXCEPT
                   !.y = @ + (IF dir > 0 THEN radToDeg(SNAP)
                              ELSE 0 - radToDeg(SNAP))]

\* const trySnap = (dir) => ...
trySnap(dir) ==
    IF now < cooldown
      THEN /\ snapLog' = Append(snapLog, Trigger(dir))
           /\ UNCHANGED <<cooldown, rotation>>
      ELSE /\ cooldown' = now + cooldownMs
           /\ snapLog' = Append(snapLog, Trigger(dir))
           /\ IF ~rigPresent
                THEN UNCHANGED rotation
                ELSE rotation' =
                       [rotation EXCEPT
                          !.y = @ + (IF dir > 0 THEN radToDeg(SNAP)
                                     ELSE 0 - radToDeg(SNAP))]

Keys == {"e", "E", "q", "Q", "w"}

\* this._onKey: a keydown event {key, repeat}
onKey(key, repeat) ==
    /\ FrameIdle
    /\ Len(snapLog) < MaxSnaps
    /\ IF repeat THEN UNCHANGED <<cooldown, rotation, snapLog>>
       ELSE IF key \in {"e", "E"} THEN trySnap(1)
       ELSE IF key \in {"q", "Q"} THEN trySnap(0 - 1)
       ELSE UNCHANGED <<cooldown, rotation, snapLog>>
    /\ UNCHANGED <<clockVars, rafVars, rigPresent, position, reqLog, walkVars,
                   vrMode, sessVars>>
    /\ UNCHANGED <<qualVars, lifeVars, clicks>>

\* e.detail.axis of an axismove event, in thousandths; <<>> when it is missing
AxisInputs == {<<>>, <<900, 0>>, <<800, 0>>, <<0 - 1000>>, <<0 - 800, 500>>}

\* this._onAxis
onAxis(ax) ==
    /\ FrameIdle
    /\ Len(snapLog) < MaxSnaps
    /\ LET x == IF ax = <<>> THEN 0 ELSE ax[1]
       IN IF x > 800 THEN trySnap(1)
          ELSE IF x < 0 - 800 THEN trySnap(0 - 1)
          ELSE UNCHANGED <<cooldown, rotation, snapLog>>
    /\ UNCHANGED <<clockVars, rafVars, rigPresent, position, reqLog, walkVars,
                   vrMode, sessVars>>
    /\ UNCHANGED <<qualVars, lifeVars, clicks>>

(***************************************************************************)
(* vr-quality: the renderer's pixel ratio, low at first, raised when a     *)
(* model has loaded or the session starts, the platform's on exit.  Pixel  *)
(* ratios and their multipliers are in hundredths.                         *)
(***************************************************************************)
pixelRatioMultiplier == 160
maxPixelRatio == 300
initialMultiplier == 90
anisotropy == 16
DevicePixelRatios == {100, 200}

\* Math.min(window.devicePixelRatio * multiplier, maxPixelRatio)
Scaled(multiplier) == Min((dpr * multiplier) \div 100, maxPixelRatio)

\* Faulty variant of setPR: the initial multiplier in place of the target's.
setPR_Low ==
    IF ~renderer
      THEN UNCHANGED <<pixelRatio, foveation>>
      ELSE /\ pixelRatio' = Scaled(initialMultiplier)
           /\ foveation' = 0

\* const setPR = () => ..., on a renderer whose xr has setFoveation
setPR ==
    IF ~renderer
      THEN UNCHANGED <<pixelRatio, foveation>>
      ELSE /\ pixelRatio' = Scaled(pixelRatioMultiplier)
           /\ foveation' = 0

\* const setPRLow = () => ...: the pixel ratio it leaves
setPRLow == IF ~renderer THEN 0 ELSE Scaled(initialMultiplier)

\* const applyAniso = () => ...
applyAniso == texAniso' = IF textures THEN anisotropy ELSE texAniso

\* The history of scene events, kept while there is a renderer
Seen(kind) == prLog' = IF renderer THEN prLog \cup {kind} ELSE prLog

\* const onEnter = () => { setPR(); applyAniso(); }, on a scene event of `kind`
onEnter(kind) == setPR /\ applyAniso /\ Seen(kind)

\* const onExit = () => ...
onExit ==
    /\ pixelRatio' = IF ~renderer THEN pixelRatio
                     ELSE IF dpr = 0 THEN 100 ELSE dpr
    /\ Seen("exit")

\* A model-loaded event reaches the scene: const bump = () => ...
modelLoaded ==
    /\ FrameIdle
    /\ IF bumpArmed
         THEN setPR /\ bumpArmed' = FALSE
         ELSE UNCHANGED <<pixelRatio, foveation, bumpArmed>>
    /\ Seen("loaded")
    /\ UNCHANGED <<clockVars, rafVars, rigVars, reqLog, walkVars, snapVars,
                   vrMode, sessVars, clicks, qualConf, texAniso, lifeVars>>

(***************************************************************************)
(* auto-vr: request the immersive session after a delay; show a tap        *)
(* overlay when the request is rejected or the host gives no promise.      *)
(***************************************************************************)
delayMs == 200
fallbackMs == 300
HostApis == {"promise", "void", "absent"}

Count(requests, created, removed) ==
    [requests |-> requests, created |-> created, removed |-> removed]

\* Faulty variant of cleanup: the overlay is removed without testing that it
\* is there.
cleanup_Untested(ov, inDom, removed) == <<"null", FALSE, removed + 1>>

\* const cleanup = () => ...: the new values of <<overlay, overlayInDom, removed>>
cleanup(ov, inDom, removed) ==
    <<"null", IF ov = "div" /\ inDom THEN FALSE ELSE inDom,
      IF ov = "div" /\ inDom THEN removed + 1 ELSE removed>>

\* const showOverlay = () => ...
showOverlay ==
    IF overlay = "div"
      THEN UNCHANGED <<overlay, overlayInDom, btnArmed, sessLog>>
      ELSE /\ overlay' = "div"
           /\ overlayInDom' = TRUE
           /\ btnArmed' = TRUE
           /\ sessLog' = [sessLog EXCEPT !.created = @ + 1]

\* Faulty variant of tryEnter: vr-mode is not tested.
tryEnter_IgnoresVrMode ==
    /\ FrameIdle
    /\ startupTimer >= 0
    /\ now >= startupTimer
    /\ startupTimer' = 0 - 1
    /\ IF hostApi = "promise"
         THEN /\ autoReq' = "pending"
              /\ sessLog' = [sessLog EXCEPT !.requests = @ + 1]
              /\ UNCHANGED fallbackTimer
         ELSE /\ fallbackTimer' = now + fallbackMs
              /\ sessLog' = [sessLog EXCEPT
                               !.requests = IF hostApi = "void" THEN @ + 1 ELSE @]
              /\ UNCHANGED autoReq
    /\ UNCHANGED <<clockVars, rafVars, rigVars, reqLog, walkVars, snapVars,
                   vrMode, hostApi, autoVr, btnReq, overlay, overlayInDom,
                   btnArmed>>
    /\ UNCHANGED <<qualVars, lifeVars, clicks>>

\* setTimeout(tryEnter, this.data.delayMs) fires: const tryEnter = () => ...
tryEnter ==
    /\ FrameIdle
    /\ startupTimer >= 0
    /\ now >= startupTimer
    /\ startupTimer' = 0 - 1
    /\ IF vrMode
         THEN UNCHANGED <<autoReq, fallbackTimer, sessLog>>
       ELSE IF hostApi = "promise"
         THEN /\ autoReq' = "pending"
              /\ sessLog' = [sessLog EXCEPT !.requests = @ + 1]
              /\ UNCHANGED fallbackTimer
       ELSE /\ fallbackTimer' = now + fallbackMs
            /\ sessLog' = [sessLog EXCEPT
                             !.requests = IF hostApi = "void" THEN @ + 1 ELSE @]
            /\ UNCHANGED autoReq
    /\ UNCHANGED <<clockVars, rafVars, rigVars, reqLog, walkVars, snapVars,
                   vrMode, hostApi, autoVr, btnReq, overlay, overlayInDom,
                   btnArmed>>
    /\ UNCHANGED <<qualVars, lifeVars, clicks>>

\* setTimeout(showOverlay, 300) fires
fallbackFires ==
    /\ FrameIdle
    /\ fallbackTimer >= 0
    /\ now >= fallbackTimer
    /\ fallbackTimer' = 0 - 1
    /\ showOverlay
    /\ UNCHANGED <<clockVars, rafVars, rigVars, reqLog, walkVars, snapVars,
                   vrMode, hostApi, autoVr, startupTimer, autoReq, btnReq>>
    /\ UNCHANGED <<qualVars, lifeVars, clicks>>

\* ret.then(..., () => showOverlay()): the automatic request is rejected
autoRejected ==
    /\ FrameIdle
    /\ autoReq = "pending"
    /\ autoReq' = "rejected"
    /\ showOverlay
    /\ UNCHANGED <<clockVars, rafVars, rigVars, reqLog, walkVars, snapVars,
                   vrMode, hostApi, autoVr, startupTimer, fallbackTimer, btnReq>>
    /\ UNCHANGED <<qualVars, lifeVars, clicks>>

\* Faulty variant of onEnterVR: no enter-vr listener is registered.
onEnterVR_NotRegistered == UNCHANGED <<overlay, overlayInDom, sessLog>>

\* The scene's enter-vr listeners of auto-vr: cleanup, when init registered it
onEnterVR ==
    LET c == cleanup(overlay, overlayInDom, sessLog.removed)
    IN IF autoVr
         THEN /\ overlay' = c[1]
              /\ overlayInDom' = c[2]
              /\ sessLog' = [sessLog EXCEPT !.removed = c[3]]
         ELSE UNCHANGED <<overlay, overlayInDom, sessLog>>

\* The host starts the session for a pending request: vr-mode is set, enter-vr
\* is emitted when the scene was not in VR, and then the promise resolves
\* into () => cleanup().
Resolved ==
    /\ vrMode' = TRUE
    /\ IF vrMode THEN UNCHANGED <<pixelRatio, foveation, texAniso, prLog>>
       ELSE onEnter("enter")
    /\ LET c == cleanup(overlay, overlayInDom, sessLog.removed)
       IN /\ overlay' = c[1]
          /\ overlayInDom' = c[2]
          /\ sessLog' = [sessLog EXCEPT !.removed = c[3]]

\* ret.then(() => cleanup(), ...): the automatic request succeeds
autoResolved ==
    /\ FrameIdle
    /\ autoReq = "pending"
    /\ autoReq' = "fulfilled"
    /\ Resolved
    /\ UNCHANGED <<clockVars, rafVars, rigVars, reqLog, walkVars, snapVars,
                   hostApi, autoVr, startupTimer, fallbackTimer, btnReq,
                   btnArmed>>
    /\ UNCHANGED <<qualConf, bumpArmed, lifeVars, clicks>>

\* Faulty variant of btnClick: the listener is not a once-listener.
btnClick_NotOnce ==
    /\ FrameIdle
    /\ overlayInDom
    /\ clicks < MaxClicks
    /\ IF hostApi = "promise"
         THEN /\ btnReq' = "pending"
              /\ sessLog' = [sessLog EXCEPT !.requests = @ + 1]
              /\ UNCHANGED <<btnArmed, overlay, overlayInDom>>
         ELSE /\ overlay' = "null"
              /\ overlayInDom' = FALSE
              /\ sessLog' = [requests |-> IF hostApi = "void"
                                         THEN sessLog.requests + 1
                                         ELSE sessLog.requests,
                             created |-> sessLog.created,
                             removed |-> sessLog.removed + 1]
              /\ UNCHANGED <<btnArmed, btnReq>>
    /\ UNCHANGED <<clockVars, rafVars, rigVars, reqLog, walkVars, snapVars,
                   vrMode, hostApi, autoVr, startupTimer, fallbackTimer,
                   autoReq>>
    /\ clicks' = clicks + 1
    /\ UNCHANGED <<qualVars, lifeVars>>

\* btn.addEventListener('click', () => ..., { once: true }): a click on the button
btnClick ==
    /\ FrameIdle
    /\ overlayInDom
    /\ clicks < MaxClicks
    /\ IF ~btnArmed
         THEN UNCHANGED <<btnArmed, btnReq, overlay, overlayInDom, sessLog>>
       ELSE IF hostApi = "promise"
         THEN /\ btnArmed' = FALSE
              /\ btnReq' = "pending"
              /\ sessLog' = [sessLog EXCEPT !.requests = @ + 1]
              /\ UNCHANGED <<overlay, overlayInDom>>
       ELSE LET c == cleanup(overlay, overlayInDom, sessLog.removed)
            IN /\ btnArmed' = FALSE
               /\ overlay' = c[1]
               /\ overlayInDom' = c[2]
               /\ sessLog' = [requests |-> IF hostApi = "void"
                                          THEN sessLog.requests + 1
                                          ELSE sessLog.requests,
                              created |-> sessLog.created,
                              removed |-> c[3]]
               /\ UNCHANGED btnReq
    /\ UNCHANGED <<clockVars, rafVars, rigVars, reqLog, walkVars, snapVars,
                   vrMode, hostApi, autoVr, startupTimer, fallbackTimer,
                   autoReq>>
    /\ clicks' = clicks + 1
    /\ UNCHANGED <<qualVars, lifeVars>>

\* p.then(() => cleanup()): the button's request succeeds
btnResolved ==
    /\ FrameIdle
    /\ btnReq = "pending"
    /\ btnReq' = "fulfilled"
    /\ Resolved
    /\ UNCHANGED <<clockVars, rafVars, rigVars, reqLog, walkVars, snapVars,
                   hostApi, autoVr, startupTimer, fallbackTimer, autoReq,
                   btnArmed>>
    /\ UNCHANGED <<qualConf, bumpArmed, lifeVars, clicks>>

\* The button's request is rejected: p.then has no rejection handler
btnRejected ==
    /\ FrameIdle
    /\ btnReq = "pending"
    /\ btnReq' = "rejected"
    /\ UNCHANGED <<clockVars, rafVars, rigVars, reqLog, walkVars, snapVars,
                   vrMode, hostApi, autoVr, startupTimer, fallbackTimer,
                   autoReq, overlay, overlayInDom, btnArmed, sessLog>>
    /\ UNCHANGED <<qualVars, lifeVars, clicks>>

\* The host enters VR by other means: vr-mode is set and enter-vr is emitted.
HostEnter ==
    /\ FrameIdle
    /\ ~vrMode
    /\ vrMode' = TRUE
    /\ onEnterVR
    /\ UNCHANGED <<clockVars, rafVars, rigVars, reqLog, walkVars, snapVars,
                   hostApi, autoVr, startupTimer, fallbackTimer, autoReq,
                   btnReq, btnArmed>>
    /\ onEnter("enter")
    /\ UNCHANGED <<qualConf, bumpArmed, lifeVars, clicks>>

\* The host leaves VR: vr-mode is cleared and exit-vr is emitted.
HostExit ==
    /\ FrameIdle
    /\ vrMode
    /\ vrMode' = FALSE
    /\ UNCHANGED <<clockVars, rafVars, rigVars, reqLog, walkVars, snapVars,
                   sessVars>>
    /\ onExit
    /\ UNCHANGED <<qualConf, foveation, texAniso, bumpArmed, lifeVars, clicks>>

\* An enter-vr event reaches the scene while it is in vr-mode already: the
\* listeners of auto-vr and of vr-quality run again.
HostReenter ==
    /\ FrameIdle
    /\ vrMode
    /\ onEnterVR
    /\ onEnter("reenter")
    /\ UNCHANGED <<clockVars, rafVars, rigVars, reqLog, walkVars, snapVars,
                   vrMode, hostApi, autoVr, startupTimer, fallbackTimer,
                   autoReq, btnReq, btnArmed>>
    /\ UNCHANGED <<qualConf, bumpArmed, lifeVars, clicks>>

\* auto-vr is removed from the scene: the component defines no remove, so
\* its timers, promise callbacks and enter-vr listener stay as they are.
autoVr_remove ==
    /\ FrameIdle
    /\ autoVr
    /\ ~autoVrRemoved
    /\ autoVrRemoved' = TRUE
    /\ UNCHANGED <<clockVars, rafVars, rigVars, reqLog, walkVars, snapVars,
                   vrMode, sessVars, clicks, qualVars, hotspotRemoved>>

(***************************************************************************)
(* The state after the components' init.                                   *)
(***************************************************************************)
Init ==
    /\ now = 0
    /\ lastFrame = 0
    /\ frameDt = 0
    /\ tickDue = FALSE
    /\ frameQueue = <<>>
    /\ rafQueue = <<>>
    /\ rigPresent \in BOOLEAN
    /\ position = Origin
    /\ rotation = Vec3(5, 0, 0 - 10)
    /\ reqLog = <<>>
    /\ walking \in BOOLEAN
    /\ vrOnly \in BOOLEAN
    /\ toggleOnClick \in BOOLEAN
    /\ camPresent \in BOOLEAN
    /\ camDir \in (IF camPresent THEN CamDirs ELSE {Vec3(0, 0, 0 - 1)})
    /\ walkLog = [ms |-> 0, maxDt |-> 0]
    /\ cooldown = 0
    /\ snapLog = <<>>
    /\ vrMode = FALSE
    /\ hostApi \in HostApis
    /\ autoVr \in BOOLEAN
    /\ startupTimer = IF autoVr THEN delayMs ELSE 0 - 1
    /\ fallbackTimer = 0 - 1
    /\ autoReq = "none"
    /\ btnReq = "none"
    /\ overlay = "undefined"
    /\ overlayInDom = FALSE
    /\ btnArmed = FALSE
    /\ sessLog = Count(0, 0, 0)
    /\ clicks = 0
    /\ renderer \in BOOLEAN
    /\ rampOnModelLoaded \in BOOLEAN
    /\ dpr \in DevicePixelRatios
    /\ textures \in BOOLEAN
    /\ pixelRatio = setPRLow
    /\ foveation = 100
    /\ texAniso = 1
    /\ bumpArmed = rampOnModelLoaded
    /\ prLog = {}
    /\ hotspotRemoved = FALSE
    /\ autoVrRemoved = FALSE

\* The schema defaults of auto-walk, and no automatic session entry.
WalkDefaults ==
    walking /\ vrOnly /\ toggleOnClick /\ camPresent /\ camDir = Vec3(0, 0, 0 - 1)
SessionOff == ~autoVr /\ hostApi = "promise"
\* No renderer yet when vr-quality is initialised, and no textured material.
QualityOff == ~renderer /\ ~textures /\ rampOnModelLoaded /\ dpr = 100

(***************************************************************************)
(* Teleport alone: hotspot clicks and the render loop.  With the schema    *)
(* defaults and the scene outside VR, auto-walk's tick never moves the rig.*)
(***************************************************************************)
InitTeleport == Init /\ WalkDefaults /\ SessionOff /\ QualityOff

NextTeleport ==
    \/ \E d \in FrameSteps : Elapse(d, TeleportHorizon)
    \/ BeginFrame
    \/ tick
    \/ animate
    \/ \E to \in Targets, ms \in Durations : hotspot_onClick(to, ms)

SpecTeleport == InitTeleport /\ [][NextTeleport]_vars

(***************************************************************************)
(* Teleport claims.                                                        *)
(***************************************************************************)
Finite(to) == isFinite(to.x) /\ isFinite(to.y) /\ isFinite(to.z)
InFlight == frameQueue # <<>> \/ rafQueue # <<>>
Settled == FrameIdle /\ rafQueue = <<>>
Ids(q) == {q[i].id : i \in 1..Len(q)}

\* C1: a frame callback of a teleport run after a newer teleport was accepted
\* writes nothing to the rig position and does not reschedule itself.
C1_StaleFrameWritesNothing ==
    [][(/\ animate
        /\ \E j \in 1..Len(reqLog) :
              j > Head(frameQueue).id /\ reqLog[j].accepted)
       => (position' = position /\ rafQueue' = rafQueue)]_vars

\* C2: of two animated teleports A then B, B requested before A completes,
\* the rig rests at B's target once every animation has stopped.
C2_LastTeleportWins ==
    (/\ Len(reqLog) = 2
     /\ reqLog[1].accepted /\ reqLog[1].ms > 0
     /\ reqLog[2].accepted /\ reqLog[2].ms > 0
     /\ reqLog[2].at < reqLog[1].at + reqLog[1].ms
     /\ Settled)
    => position = Vector3(reqLog[2].to)

\* C3, the end state: after a single animated teleport and a frame at or past
\* start + D, the rig is at T and no callback is scheduled.
C3_SettledAtTarget ==
    (/\ Len(reqLog) = 1
     /\ reqLog[1].accepted /\ reqLog[1].ms > 0
     /\ FrameIdle
     /\ lastFrame >= reqLog[1].at + reqLog[1].ms)
    => (position = Vector3(reqLog[1].to) /\ rafQueue = <<>>)

\* C3, the last frame: the callback at which k reaches 1 writes T and does not
\* schedule itself again.
C3_FinalFrame ==
    (/\ animate
     /\ now - Head(frameQueue).start >= Head(frameQueue).dur)
    => (/\ position' = Head(frameQueue).to
        /\ Head(frameQueue).id \notin Ids(rafQueue') \cup Ids(frameQueue'))

\* C3: for every finite target T and duration D > 0, a single teleport
\* followed by frames covering D ms ends with the rig at T, and from the
\* frame at which k reaches 1 the animation schedules and writes no more.
C3_SingleTeleportReachesTarget == []C3_SettledAtTarget /\ [][C3_FinalFrame]_vars

C3_Witness ==
    /\ Len(reqLog) = 1
    /\ reqLog[1].accepted /\ reqLog[1].ms = 300
    /\ FrameIdle
    /\ lastFrame >= reqLog[1].at + reqLog[1].ms
    /\ position = Vector3(reqLog[1].to)
    /\ position # Origin
    /\ rafQueue = <<>>

\* C4: a click with smoothMs <= 0 and a finite target puts the rig at the
\* target within the handler and schedules no frame callback.
C4_InstantTeleport ==
    [][\A to \in Targets, ms \in Durations :
         (hotspot_onClick(to, ms) /\ rigPresent /\ Finite(to) /\ ms <= 0)
         => (/\ position' = Vector3(to)
             /\ rafQueue' = rafQueue
             /\ frameQueue' = frameQueue)]_vars

C4_Witness ==
    /\ Len(reqLog) = 1
    /\ reqLog[1].accepted /\ reqLog[1].ms = 0
    /\ position = Vector3(reqLog[1].to)
    /\ position # Origin
    /\ ~InFlight

\* C5: a click whose target has a non-finite component, or made while no rig
\* resolves, changes nothing: position, rotation and the scheduled callbacks
\* stay as they were, whatever smoothMs is.
C5_InvalidClickIsNoOp ==
    [][\A to \in Targets, ms \in Durations :
         (hotspot_onClick(to, ms) /\ (~rigPresent \/ ~Finite(to)))
         => UNCHANGED <<position, rotation, rafQueue, frameQueue, clockVars,
                        rigPresent, walkVars, snapVars, vrMode, sessVars>>]_vars

C5_Witness ==
    /\ Len(reqLog) = 2
    /\ rigPresent
    /\ reqLog[1].accepted /\ reqLog[1].ms > 0
    /\ ~reqLog[2].accepted /\ ~Finite(reqLog[2].to) /\ reqLog[2].ms > 0
    /\ reqLog[2].at < reqLog[1].at + reqLog[1].ms
    /\ Settled
    /\ position = Vector3(reqLog[1].to)

(***************************************************************************)
(* Walk alone: the render loop, scene clicks and the host entering and     *)
(* leaving VR, with the camera direction held for the run.                 *)
(***************************************************************************)
InitWalk == Init /\ SessionOff /\ QualityOff /\ rigPresent

NextWalk ==
    \/ \E d \in TimeSteps : Elapse(d, WalkHorizon)
    \/ BeginFrame
    \/ tick
    \/ autoWalk_onClick
    \/ HostEnter
    \/ HostExit

SpecWalk == InitWalk /\ [][NextWalk]_vars

(***************************************************************************)
(* Teleport and walk together.                                             *)
(***************************************************************************)
InitMotion ==
    Init /\ SessionOff /\ QualityOff /\ rigPresent /\ camPresent /\ toggleOnClick

NextMotion ==
    \/ \E d \in FrameSteps : Elapse(d, MotionHorizon)
    \/ BeginFrame
    \/ tick
    \/ animate
    \/ \E to \in Targets, ms \in Durations : hotspot_onClick(to, ms)
    \/ autoWalk_onClick
    \/ HostEnter
    \/ HostExit

SpecMotion == InitMotion /\ [][NextMotion]_vars

(***************************************************************************)
(* Walk claims.                                                            *)
(***************************************************************************)
\* C6: while a teleport animation is in flight, a walk tick adds no
\* displacement: the teleport is the only writer of the rig position.
C6_WalkSkippedDuringTeleport ==
    [][(tick /\ InFlight) => position' = position]_vars

\* The ground-plane forward direction: the camera's direction with its
\* vertical component dropped, or (0, 0, -1) when that is zero or no camera.
GroundForward ==
    IF camPresent /\ (camDir.x # 0 \/ camDir.z # 0)
      THEN <<camDir.x, camDir.z>> ELSE <<0, 0 - 1>>

Square(n) == n * n

\* C10, one tick: a tick that runs moves the rig by speed * min(dt, 100) / 1000
\* along the ground-plane forward direction, never more than speed * 0.1, and
\* leaves y alone.
C10_Tick ==
    (tick /\ shouldRun) =>
       LET dx == position'.x - position.x
           dz == position'.z - position.z
           capped == IF frameDt < 100 THEN frameDt ELSE 100
           step == (speed * capped) \div 1000
       IN /\ step * 1000 = speed * capped
          /\ Square(dx) + Square(dz) = Square(step)
          /\ dx * GroundForward[2] = dz * GroundForward[1]
          /\ dx * GroundForward[1] >= 0 /\ dz * GroundForward[2] >= 0
          /\ 100 * (Square(dx) + Square(dz)) <= Square(speed)
          /\ position'.y = position.y

\* C10, the sum: ticks of at most 100 ms each that sum to S ms have moved the
\* rig speed * S / 1000 from where it started.
C10_Total ==
    walkLog.maxDt <= 100
    => LET total == (speed * walkLog.ms) \div 1000
       IN /\ total * 1000 = speed * walkLog.ms
          /\ Square(position.x) + Square(position.z) = Square(total)

\* C10: every walk tick that runs moves the rig by exactly
\* speed * min(dt, 100) / 1000 along the ground-plane forward direction, and
\* ticks of at most 100 ms add up to speed * (their sum) / 1000.
C10_ClampedWalkStep == []C10_Total /\ [][C10_Tick]_vars

\* A single tick of 500 ms has moved the rig speed * 0.1.
C10_Witness ==
    /\ walkLog.ms = 500
    /\ walkLog.maxDt = 500
    /\ 100 * (Square(position.x) + Square(position.z)) = Square(speed)
    /\ FrameIdle

\* C11, one tick: the run condition is read from the state the tick starts
\* in; a tick moves the rig if it holds and leaves the position alone if not.
C11_Tick ==
    tick => IF walking /\ (~vrOnly \/ vrMode)
              THEN position' # position
              ELSE position' = position

\* C11, the armed flag: only a click changes it, and only when toggle-on-click
\* is set; then every click flips it.
C11_Armed ==
    /\ walking' # walking => autoWalk_onClick /\ toggleOnClick
    /\ autoWalk_onClick /\ toggleOnClick => walking' # walking

\* C11: a walk tick leaves the position unchanged whenever the walk is not
\* armed, or the VR-only gate is set and the session is not active; the
\* condition is evaluated afresh on every tick, so the walk stops on the first
\* tick after a session exit or a disarming click and resumes on the first
\* tick after the condition holds again; clicks, with toggle-on-click set,
\* are the only events that change the armed flag.
C11_WalkGate == [][C11_Tick /\ C11_Armed]_vars

\* An armed, VR-only walk has walked during the session, the session has
\* ended, and the frames since then have not moved the rig.
C11_Witness ==
    /\ walking /\ vrOnly /\ ~vrMode
    /\ walkLog.ms > 0
    /\ walkLog.ms < lastFrame
    /\ walkLog.maxDt <= 100
    /\ Square(position.x) + Square(position.z)
         = Square((speed * walkLog.ms) \div 1000)
    /\ FrameIdle

(***************************************************************************)
(* The three motion controllers on one rig: teleport, an always-armed walk *)
(* under a camera that looks down and sideways, and snap turn.             *)
(***************************************************************************)
InitRig ==
    /\ Init /\ SessionOff /\ QualityOff
    /\ rigPresent /\ camPresent /\ camDir = Vec3(3, 2, 0 - 4)
    /\ walking /\ ~vrOnly /\ ~toggleOnClick

NextRig ==
    \/ \E d \in FrameSteps : Elapse(d, RigHorizon)
    \/ BeginFrame
    \/ tick
    \/ animate
    \/ /\ Len(reqLog) < MaxRigTeleports
       /\ \E to \in Targets, ms \in Durations : hotspot_onClick(to, ms)
    \/ /\ Len(snapLog) < MaxRigSnaps
       /\ \E key \in Keys, repeat \in BOOLEAN : onKey(key, repeat)
    \/ /\ Len(snapLog) < MaxRigSnaps
       /\ \E ax \in AxisInputs : onAxis(ax)

SpecRig == InitRig /\ [][NextRig]_vars

\* C12, teleport: a click on a hotspot and each frame of its animation leave
\* the rotation alone.
C12_Teleport ==
    (animate \/ \E to \in Targets, ms \in Durations : hotspot_onClick(to, ms))
       => rotation' = rotation

\* C12, walk: a tick leaves the height and the rotation alone.
C12_Walk == tick => position'.y = position.y /\ rotation' = rotation

\* C12, snap turn: a key or axis event leaves the position, the pitch and the
\* roll alone.
C12_Snap ==
    ((\E key \in Keys, repeat \in BOOLEAN : onKey(key, repeat))
        \/ \E ax \in AxisInputs : onAxis(ax))
       => /\ position' = position
          /\ rotation'.x = rotation.x
          /\ rotation'.z = rotation.z

\* C12: the three motion controllers write disjoint fields of the rig: the
\* teleport only the position, the walk only the position's x and z (never y,
\* never the rotation), the snap turn only the yaw (never pitch, roll or
\* position).
C12_DisjointWrites == [][C12_Teleport /\ C12_Walk /\ C12_Snap]_vars

\* All three have acted on the rig: a teleport has raised it, the walk has
\* moved it and a snap turn has turned it.
C12_Witness ==
    /\ \E i \in 1..Len(reqLog) : reqLog[i].accepted
    /\ position.y # 0
    /\ walkLog.ms > 0
    /\ rotation.y # 0
    /\ rotation.x = 5 /\ rotation.z = 0 - 10
    /\ FrameIdle

(***************************************************************************)
(* Snap turn alone: key and axis events arriving as time passes.           *)
(***************************************************************************)
InitSnap == Init /\ WalkDefaults /\ SessionOff /\ QualityOff

NextSnap ==
    \/ \E d \in TimeSteps : Elapse(d, SnapHorizon)
    \/ \E key \in Keys, repeat \in BOOLEAN : onKey(key, repeat)
    \/ \E ax \in AxisInputs : onAxis(ax)

SpecSnap == InitSnap /\ [][NextSnap]_vars

(***************************************************************************)
(* The session flow: the timers, the entry requests' outcomes, the host's  *)
(* entered and exited notifications and clicks on the overlay's button.    *)
(***************************************************************************)
InitSession == Init /\ WalkDefaults /\ QualityOff /\ rigPresent

NextSession ==
    \/ \E d \in FrameSteps : Elapse(d, SessionHorizon)
    \/ tryEnter
    \/ fallbackFires
    \/ autoRejected
    \/ autoResolved
    \/ btnClick
    \/ btnResolved
    \/ btnRejected
    \/ HostEnter
    \/ HostExit

SpecSession == InitSession /\ [][NextSession]_vars

(***************************************************************************)
(* Session claims.                                                         *)
(***************************************************************************)
\* C7: the gesture-fallback overlay is never displayed while the immersive
\* session is active.
C7_OverlayNeverWhileActive == ~(overlayInDom /\ vrMode)

\* C8, the state after a rejected automatic request: one overlay was created,
\* and one more entry request is issued once the button was clicked; once
\* that request has succeeded the overlay is gone.
C8_AfterRejection ==
    autoReq = "rejected"
    => (/\ sessLog.created = 1
        /\ sessLog.requests = (IF btnReq = "none" THEN 1 ELSE 2)
        /\ (btnReq = "fulfilled" => (~overlayInDom /\ sessLog.removed = 1)))

\* C8, the steps: the rejection shows the overlay, a click on its armed
\* button issues one request, and that request's success removes the overlay
\* and leaves the session active.
C8_Steps ==
    /\ autoRejected => (sessLog'.created = 1 /\ overlayInDom')
    /\ (btnClick /\ btnArmed /\ autoReq = "rejected")
         => (sessLog'.requests = sessLog.requests + 1 /\ btnReq' = "pending")
    /\ (btnResolved /\ autoReq = "rejected") => (vrMode' /\ ~overlayInDom')

\* C8: a rejected automatic entry request shows the overlay exactly once; a
\* user action on the overlay's control then issues exactly one new entry
\* request, and when it succeeds the overlay is removed and the session is
\* active.
C8_RejectionThenTap == []C8_AfterRejection /\ [][C8_Steps]_vars

C8_Witness ==
    /\ autoReq = "rejected"
    /\ btnReq = "fulfilled"
    /\ vrMode
    /\ ~overlayInDom
    /\ sessLog = Count(2, 1, 1)

(***************************************************************************)
(* Snap-turn claims.                                                       *)
(***************************************************************************)
KeyDir(key) ==
    IF key \in {"e", "E"} THEN 1 ELSE IF key \in {"q", "Q"} THEN 0 - 1 ELSE 0
AxisDir(ax) ==
    IF ax # <<>> /\ ax[1] > 800 THEN 1
    ELSE IF ax # <<>> /\ ax[1] < 0 - 800 THEN 0 - 1 ELSE 0

\* A snap-turn trigger in direction dir: a key edge or an axis event.
Triggered(dir) ==
    \/ \E key \in Keys : KeyDir(key) = dir /\ onKey(key, FALSE)
    \/ \E ax \in AxisInputs : AxisDir(ax) = dir /\ onAxis(ax)

YawAfter(i) == IF i < Len(snapLog) THEN snapLog[i + 1].yaw ELSE rotation.y
Applied(i) == YawAfter(i) # snapLog[i].yaw

\* C9, one trigger: before cooldownUntil it changes nothing; at or after it,
\* it turns the rig by one snap step and sets cooldownUntil = now + 180.
C9_Trigger ==
    \A dir \in {1, 0 - 1} :
       Triggered(dir) =>
          IF now < cooldown
            THEN UNCHANGED <<rotation, cooldown>>
            ELSE /\ cooldown' = now + 180
                 /\ rigPresent =>
                      rotation' = [rotation EXCEPT !.y = @ + dir * snapAngle]

\* C9, the spacing: applied yaw changes are one step each and at least 180 ms
\* apart; of two triggers 50 ms apart one is applied, of two 200 ms apart both.
C9_Spacing ==
    /\ \A i \in 1..Len(snapLog) :
          Applied(i) =>
             YawAfter(i) - snapLog[i].yaw = snapLog[i].dir * snapAngle
    /\ \A i, j \in 1..Len(snapLog) :
          (i < j /\ Applied(i) /\ Applied(j))
             => snapLog[j].at - snapLog[i].at >= 180
    /\ (rigPresent /\ Len(snapLog) >= 2)
          => /\ Applied(1)
             /\ snapLog[2].at - snapLog[1].at = 50 => ~Applied(2)
             /\ snapLog[2].at - snapLog[1].at = 200 => Applied(2)

\* C9: a snap-turn trigger before cooldownUntil changes no yaw; one at or after
\* it changes yaw by exactly one snap step and sets cooldownUntil = now + 180;
\* so two applied yaw changes are at least 180 ms apart.
C9_SnapCooldown == []C9_Spacing /\ [][C9_Trigger]_vars

C9_Witness ==
    /\ rigPresent
    /\ Len(snapLog) = 3
    /\ snapLog[2].at - snapLog[1].at = 50
    /\ snapLog[3].at - snapLog[1].at = 200
    /\ Applied(1) /\ ~Applied(2) /\ Applied(3)

(***************************************************************************)
(* Session claims: the overlay's life and the entry requests.              *)
(***************************************************************************)
\* C14: when the host's entered notification makes the session active, an
\* overlay that is present is removed, and the controller issues no entry
\* request and starts no timer in response.
C14_ExternalEntry ==
    [][HostEnter =>
         /\ ~overlayInDom'
         /\ overlay' # "div"
         /\ overlayInDom => sessLog'.removed = sessLog.removed + 1
         /\ sessLog'.requests = sessLog.requests
         /\ UNCHANGED <<autoReq, btnReq, startupTimer, fallbackTimer>>]_vars

\* The session is active and the overlay was removed, by neither a click on
\* its button nor a successful request: by the entered notification.
C14_Witness ==
    /\ vrMode
    /\ sessLog.created = 1 /\ sessLog.removed = 1
    /\ ~overlayInDom
    /\ btnArmed
    /\ autoReq # "fulfilled" /\ btnReq = "none"

\* C18: whenever the overlay is displayed and the host has an entry API, every
\* user action on the overlay's control issues a fresh entry request, one that
\* follows a rejected request included.
C18_EveryTapRequests ==
    [][(btnClick /\ hostApi # "absent")
          => sessLog'.requests = sessLog.requests + 1]_vars

\* C19: the overlay is removed only as the session becomes active, and at most
\* once.
C19_RemovedOnlyOnActive ==
    /\ [](sessLog.removed <= 1)
    /\ [][(overlayInDom /\ ~overlayInDom') => vrMode']_vars

\* C20, the counts: one overlay slot, which is in the document exactly when it
\* was created and not yet removed; one creation; one automatic request, none
\* before the startup timer has fired, and one from the button, none while it
\* is armed.
C20_Counts ==
    /\ sessLog.created <= 1
    /\ sessLog.created - sessLog.removed = (IF overlayInDom THEN 1 ELSE 0)
    /\ overlayInDom => overlay = "div"
    /\ sessLog.requests <= 2
    /\ sessLog.requests <=
          (IF startupTimer >= 0 THEN 0 ELSE 1)
            + (IF sessLog.created = 1 /\ ~btnArmed THEN 1 ELSE 0)

\* C20, the steps: only the startup timer and a click on the button issue a
\* request, and the startup timer issues none when the session is active.
C20_Steps ==
    /\ sessLog'.requests # sessLog.requests => (tryEnter \/ btnClick)
    /\ (tryEnter /\ vrMode) => sessLog'.requests = sessLog.requests
    /\ (tryEnter /\ ~vrMode /\ hostApi # "absent")
          => sessLog'.requests = sessLog.requests + 1

\* C20: over the life of one session controller at most one overlay element
\* exists at any time, the overlay is created at most once, and at most two
\* entry requests are issued: one automatic after the startup delay, only if
\* the session is not active then, and at most one from the overlay's control.
C20_OneOverlayTwoRequests == []C20_Counts /\ [][C20_Steps]_vars

\* Both requests were issued on a host whose entry API returns no promise,
\* and the one overlay has come and gone.
C20_Witness ==
    /\ hostApi = "void"
    /\ startupTimer < 0
    /\ sessLog.requests = 2
    /\ sessLog.created = 1 /\ sessLog.removed = 1

(***************************************************************************)
(* The session flow with a renderer: the session's events as above, the    *)
(* scene's model-loaded events and repeated entered notifications.         *)
(***************************************************************************)
InitQuality == Init /\ WalkDefaults /\ rigPresent

NextQuality ==
    \/ \E d \in FrameSteps : Elapse(d, SessionHorizon)
    \/ tryEnter
    \/ fallbackFires
    \/ autoRejected
    \/ autoResolved
    \/ btnClick
    \/ btnResolved
    \/ btnRejected
    \/ HostEnter
    \/ HostExit
    \/ HostReenter
    \/ modelLoaded

SpecQuality == InitQuality /\ [][NextQuality]_vars

(***************************************************************************)
(* Render-scale claims.                                                    *)
(***************************************************************************)
\* The state an entered notification leaves: no overlay, the target scale.
Entered ==
    /\ vrMode
    /\ ~overlayInDom /\ overlay # "div"
    /\ renderer => pixelRatio = Scaled(pixelRatioMultiplier) /\ foveation = 0
    /\ textures => texAniso = anisotropy

\* C15, the removal alone: with no overlay in the document it changes
\* nothing but the variable, and run twice it does what it does run once.
C15_Cleanup ==
    \A ov \in {"undefined", "null", "div"}, inDom \in BOOLEAN, n \in 0..2 :
       LET c == cleanup(ov, inDom, n)
       IN /\ (ov # "div" \/ ~inDom) => (c[2] = inDom /\ c[3] = n)
          /\ cleanup(c[1], c[2], c[3]) = c

\* C15, the steps: every entered notification leaves the state Entered and
\* issues no request; one that finds the state Entered changes nothing; and
\* a removal that finds no overlay in the document leaves it so.
C15_Steps ==
    /\ (HostEnter \/ HostReenter)
          => (Entered' /\ sessLog'.requests = sessLog.requests)
    /\ (HostReenter /\ Entered)
          => UNCHANGED <<sessVars, clicks, qualConf, pixelRatio, foveation,
                         texAniso, bumpArmed>>
    /\ ((HostEnter \/ HostReenter \/ autoResolved \/ btnResolved)
           /\ ~overlayInDom)
          => (~overlayInDom' /\ sessLog'.removed = sessLog.removed)

\* C15: overlay removal is idempotent, a no-op when the overlay is absent or
\* already removed; and an entered notification received while the session
\* is active leaves the overlay state, the render scale and the number of
\* entry requests as the first one left them.
C15_Idempotent == []C15_Cleanup /\ [][C15_Steps]_vars

\* A second entered notification has arrived in an active session whose
\* overlay was removed, on a renderer at the target scale.
C15_Witness ==
    /\ "reenter" \in prLog
    /\ vrMode /\ Entered
    /\ sessLog.created = 1 /\ sessLog.removed = 1
    /\ sessLog.requests >= 1

\* C16 as stated: the scale is the reduced one until the first model-loaded
\* event or entry into the session, and the target one after that event.
C16_RampOnFirstEvent ==
    /\ []((renderer /\ prLog \cap {"enter", "loaded"} = {})
            => pixelRatio = Scaled(initialMultiplier))
    /\ [][(/\ renderer
           /\ prLog \cap {"enter", "loaded"} = {}
           /\ (modelLoaded \/ (~vrMode /\ vrMode')))
          => pixelRatio' = Scaled(pixelRatioMultiplier)]_vars

\* C16: with rampOnModelLoaded set, the scale is the reduced one until the
\* first model-loaded event or entry into the session, and the target one,
\* min(devicePixelRatio * multiplier, maxPixelRatio), after that event.
C16_RampWhenConfigured ==
    /\ []((renderer /\ rampOnModelLoaded /\ prLog \cap {"enter", "loaded"} = {})
            => pixelRatio = Scaled(initialMultiplier))
    /\ [][(/\ renderer /\ rampOnModelLoaded
           /\ prLog \cap {"enter", "loaded"} = {}
           /\ (modelLoaded \/ (~vrMode /\ vrMode')))
          => pixelRatio' = Scaled(pixelRatioMultiplier)]_vars

\* A model has loaded before any session: the scale is the capped target.
C16_Witness ==
    /\ renderer /\ rampOnModelLoaded
    /\ prLog = {"loaded"}
    /\ dpr = 200
    /\ pixelRatio = maxPixelRatio

\* C17: after an exit notification and until the next entry the render scale
\* is the platform's, whatever else happens.
C17_DefaultAfterExit ==
    (renderer /\ "exit" \in prLog /\ ~vrMode) => pixelRatio = dpr

(***************************************************************************)
(* Component removal: a hotspot with one teleport and the session          *)
(* controller with its timers and its automatic request, either of which   *)
(* may be removed at any time between frames; the walk is disabled.        *)
(***************************************************************************)
InitTeardown ==
    /\ Init /\ QualityOff
    /\ rigPresent /\ camPresent /\ camDir = Vec3(0, 0, 0 - 1)
    /\ ~walking /\ vrOnly /\ toggleOnClick
    /\ autoVr /\ hostApi \in {"promise", "void"}

NextTeardown ==
    \/ \E d \in FrameSteps : Elapse(d, TeardownHorizon)
    \/ BeginFrame
    \/ tick
    \/ animate
    \/ /\ Len(reqLog) < MaxRigTeleports
       /\ \E to \in Targets, ms \in Durations : hotspot_onClick(to, ms)
    \/ hotspot_remove
    \/ autoVr_remove
    \/ tryEnter
    \/ fallbackFires
    \/ autoRejected
    \/ autoResolved

SpecTeardown == InitTeardown /\ [][NextTeardown]_vars

\* C13: once a hotspot is removed, a frame of a teleport animation it
\* started writes the position no more; once the session controller is
\* removed, its startup timer, fallback timer and request callbacks issue no
\* entry request and show no overlay.
C13_NoEffectAfterTeardown ==
    [][/\ (hotspotRemoved /\ animate) => position' = position
       /\ autoVrRemoved
            => /\ sessLog'.requests = sessLog.requests
               /\ sessLog'.created = sessLog.created
               /\ overlayInDom' => overlayInDom]_vars

==========================================================================
